---- MODULE Spec2Model ----
(***************************************************************************)
(* A model of the alexa-slack skill backend (src/index.js): the intent     *)
(* handlers and their promise chains of HTTP calls, the AMAZON.TIME        *)
(* normalisation and the offset-aware snooze duration (moment.js           *)
(* arithmetic), and the status-to-emoji mapping.                           *)
(*                                                                         *)
(* Strings whose characters the code inspects (slot values) are sequences  *)
(* of one-character strings.  Instants are milliseconds since the epoch,   *)
(* as Date.now() returns them; UTC offsets are minutes.                    *)
(***************************************************************************)
EXTENDS Integers, Sequences, FiniteSets, TLC

VARIABLES
    event,          \* per turn: the inbound Alexa event, or NoEvent
    pc,             \* per turn: position of the handler / its promise chain
    responses,      \* per turn: the this.emit(...) calls made, in order
    requests,       \* per turn: the HTTP requests issued, in order
    returned,       \* per turn: the HTTP responses received, in order
    now,            \* the implicit global `now` (index.js:204)
    profile,        \* the implicit global `profile` (index.js:304..354)
    nowWriter,      \* the turn that last assigned `now` (0: nobody)
    profileWriter,  \* the turn that last assigned `profile` (0: nobody)
    tcall,          \* a stand-alone call of setSlackDNDUntil's computation
    scall           \* a stand-alone call of emojifyStatus

vars == <<event, pc, responses, requests, returned, now, profile,
          nowWriter, profileWriter, tcall, scall>>

turnVars == <<event, pc, responses, requests, returned>>
globalVars == <<now, profile, nowWriter, profileWriter>>

-----------------------------------------------------------------------------
(* Characters and strings                                                  *)

Digits == <<"0", "1", "2", "3", "4", "5", "6", "7", "8", "9">>

IsDigit(c) == \E i \in 1..10 : Digits[i] = c

DigitVal(c) == (CHOOSE i \in 1..10 : Digits[i] = c) - 1

\* The JavaScript value undefined (an absent slot value or token).
Undefined == <<"<undefined>">>

\* `${v}` : undefined prints as the nine letters "undefined".
TemplateString(v) ==
    IF v = Undefined THEN <<"u", "n", "d", "e", "f", "i", "n", "e", "d">> ELSE v

\* !v for a string-or-undefined v: undefined and "" are falsy.
Falsy(v) == v = Undefined \/ v = <<>>

\* s.match(/kw/) for a literal keyword: kw occurs as a substring of s.
Matches(s, kw) ==
    \E i \in 1..(Len(s) - Len(kw) + 1) : SubSeq(s, i, i + Len(kw) - 1) = kw

-----------------------------------------------------------------------------
(* Time: normalizeAmazonTime, moment.js, getMinutesUntil                   *)

MsPerMinute == 60000
MsPerDay == 86400000

\* The time zone of the process, as minutes east of UTC.  The handler is an
\* AWS Lambda entry point (exports.handler ... context); Lambda runs in UTC.
ProcessUTCOffset == 0

TimeString(h, m) ==
    <<Digits[(h \div 10) + 1], Digits[(h % 10) + 1], ":",
      Digits[(m \div 10) + 1], Digits[(m % 10) + 1]>>

normalizeAmazonTime_swapped(time) ==
    CASE time = <<"M", "O">> -> TimeString(9, 0)
      [] time = <<"A", "F">> -> TimeString(13, 0)
      [] time = <<"E", "V">> -> TimeString(21, 0)
      [] time = <<"N", "I">> -> TimeString(19, 0)
      [] OTHER -> time

normalizeAmazonTime(time) ==
    CASE time = <<"M", "O">> -> TimeString(9, 0)
      [] time = <<"A", "F">> -> TimeString(13, 0)
      [] time = <<"E", "V">> -> TimeString(19, 0)
      [] time = <<"N", "I">> -> TimeString(21, 0)
      [] OTHER -> time

\* moment's forgiving match of an 'HH' or 'mm' token (/\d\d?/) in s from
\* index `from`: the first one or two digits found; what precedes is skipped.
ParseNumber(s, from) ==
    LET idx == {i \in from..Len(s) : IsDigit(s[i])}
    IN IF idx = {} THEN [found |-> FALSE, val |-> 0, next |-> from]
       ELSE LET i == CHOOSE j \in idx : \A k \in idx : j <= k
            IN IF i < Len(s) /\ IsDigit(s[i + 1])
               THEN [found |-> TRUE,
                     val |-> 10 * DigitVal(s[i]) + DigitVal(s[i + 1]),
                     next |-> i + 2]
               ELSE [found |-> TRUE, val |-> DigitVal(s[i]), next |-> i + 1]

\* moment's match of the literal ':' of the format: skip through the first
\* ':' at or after `from`, if there is one.
SkipColon(s, from) ==
    LET idx == {i \in from..Len(s) : s[i] = ":"}
    IN IF idx = {} THEN from
       ELSE (CHOOSE j \in idx : \A k \in idx : j <= k) + 1

\* Non-strict parse of s against 'HH:mm': missing parts default to 0; an
\* hour or minute out of range makes the moment invalid.
ParseHHmm(s) ==
    LET hh == ParseNumber(s, 1)
        mm == ParseNumber(s, SkipColon(s, hh.next))
        overflow == \/ hh.val > 24
                    \/ mm.val > 59
                    \/ (hh.val = 24 /\ mm.val # 0)
    IN [valid |-> ~overflow, parsed |-> hh.found \/ mm.found,
        minutes |-> 60 * hh.val + mm.val]

\* A moment: _d holds the wall-clock fields (as a UTC timestamp) once
\* _isUTC is set, _offset the minutes east of UTC.
valueOf(m) == m.d - m.offset * MsPerMinute

\* moment(`${requested_time}Z`, 'HH:mmZ'): the parsed clock time on the
\* current UTC date (the 'Z' token sets _useUTC), as a local-mode moment.
MomentFromHHmmZ(s, clock) ==
    LET p == ParseHHmm(s)
    IN [valid |-> p.valid,
        d |-> (clock \div MsPerDay) * MsPerDay + p.minutes * MsPerMinute,
        offset |-> 0, isUTC |-> FALSE]

\* moment(Date.now())
MomentFromInstant(clock) ==
    [valid |-> TRUE, d |-> clock, offset |-> 0, isUTC |-> FALSE]

Abs(x) == IF x < 0 THEN -x ELSE x

\* moment#utcOffset(input, keepLocalTime)
utcOffset(m, input0, keepLocalTime) ==
    LET input == IF Abs(input0) < 16 THEN input0 * 60 ELSE input0
        localAdjust == IF ~m.isUTC /\ keepLocalTime THEN ProcessUTCOffset ELSE 0
        shift == IF m.offset # input /\ ~keepLocalTime
                 THEN input - m.offset ELSE 0
    IN IF ~m.valid THEN m
       ELSE [valid |-> TRUE,
             d |-> m.d + (localAdjust + shift) * MsPerMinute,
             offset |-> input, isUTC |-> TRUE]

\* moment#add(1, 'day')
AddDay(m) == IF m.valid THEN [m EXCEPT !.d = @ + MsPerDay] ELSE m

\* absFloor: truncation toward zero
AbsFloor(x, q) == IF x >= 0 THEN x \div q ELSE -((-x) \div q)

\* moment#diff(that, 'minutes'); NaN (nan set) when either moment is invalid
DiffMinutes(m, that) ==
    IF ~m.valid \/ ~that.valid THEN [nan |-> TRUE, val |-> 0]
    ELSE [nan |-> FALSE, val |-> AbsFloor(valueOf(m) - valueOf(that), MsPerMinute)]

getMinutesUntil_nonstrict(requested_time, offset, clock) ==
    LET target == utcOffset(MomentFromHHmmZ(TemplateString(requested_time) \o <<"Z">>, clock),
                            offset, TRUE)
        n == utcOffset(MomentFromInstant(clock), offset, FALSE)
        rolled == IF target.valid /\ valueOf(n) >= valueOf(target)
                  THEN AddDay(target) ELSE target
    IN [minutes |-> DiffMinutes(rolled, n), now |-> n]

\* getMinutesUntil(requested_time, offset) with Date.now() = clock: the
\* minutes returned and the moment assigned to the global `now`.
getMinutesUntil(requested_time, offset, clock) ==
    LET target == utcOffset(MomentFromHHmmZ(TemplateString(requested_time) \o <<"Z">>, clock),
                            offset, TRUE)
        n == utcOffset(MomentFromInstant(clock), offset, FALSE)
        rolled == IF target.valid /\ valueOf(n) > valueOf(target)
                  THEN AddDay(target) ELSE target
    IN [minutes |-> DiffMinutes(rolled, n), now |-> n]

\* The computation of setSlackDNDUntil(time, offset, token) up to the
\* num_minutes it passes to setSlackDND (a number: nan or val).
setSlackDNDUntil(time, offset, clock) ==
    LET requested_time == normalizeAmazonTime(time)
        r == getMinutesUntil(requested_time, offset, clock)
    IN [requested_time |-> requested_time, minutes |-> r.minutes, now |-> r.now]

-----------------------------------------------------------------------------
(* Stand-alone calls of the time computation                               *)

MaxOffsetHours == 12
MinuteSamples == 2
SubMinuteSamples == 2

TimeTokens == {<<"M", "O">>, <<"A", "F">>, <<"E", "V">>, <<"N", "I">>}

MinuteMarks == {k * (60 \div MinuteSamples) : k \in 0..(MinuteSamples - 1)}

MsMarks == {k * (MsPerMinute \div SubMinuteSamples) : k \in 0..(SubMinuteSamples - 1)}

ClockTimes == {TimeString(h, m) : h \in {0, 5, 9, 13, 17, 19, 21, 23}, m \in MinuteMarks}

\* UTC offsets in minutes: whole hours and India's +05:30.
Offsets == {60 * h : h \in (-MaxOffsetHours)..MaxOffsetHours} \cup {330}

\* Values of Date.now(): instants of the third day after the epoch.
Clocks ==
    {2 * MsPerDay + (60 * h + m) * MsPerMinute + ms :
        h \in 0..23, m \in MinuteMarks, ms \in MsMarks}

NoMoment == [valid |-> FALSE, d |-> 0, offset |-> 0, isUTC |-> FALSE]

NoTimeResult ==
    [requested_time |-> <<>>, minutes |-> [nan |-> TRUE, val |-> 0], now |-> NoMoment]

InitGlobals ==
    /\ now = [declared |-> FALSE]
    /\ profile = [declared |-> FALSE]
    /\ nowWriter = 0
    /\ profileWriter = 0

CallSetSlackDNDUntil ==
    /\ tcall.state = "ready"
    /\ LET out == setSlackDNDUntil(tcall.time, tcall.offset, tcall.clock)
       IN /\ tcall' = [tcall EXCEPT !.state = "done", !.out = out]
          /\ now' = [declared |-> TRUE, value |-> out.now]
    /\ UNCHANGED <<turnVars, profile, nowWriter, profileWriter, scall>>

-----------------------------------------------------------------------------
(* Status: emojifyStatus                                                   *)
Lunch == <<"l", "u", "n", "c", "h">>
Coffee == <<"c", "o", "f", "f", "e", "e">>
Busy == <<"b", "u", "s", "y">>
Errand == <<"e", "r", "r", "a", "n", "d">>
Doctor == <<"d", "o", "c", "t", "o", "r">>
Away == <<"a", "w", "a", "y">>
Call == <<"c", "a", "l", "l">>
Meeting == <<"m", "e", "e", "t", "i", "n", "g">>
Sick == <<"s", "i", "c", "k">>
Commuting == <<"c", "o", "m", "m", "u", "t", "i", "n", "g">>

DoNotDisturb == <<"D", "o", " ", "n", "o", "t", " ", "d", "i", "s", "t", "u", "r", "b">>

emojifyStatus_echo(status) ==
    IF Matches(status, Lunch)
        THEN [status_text |-> status, status_emoji |-> ":taco:"]
    ELSE IF Matches(status, Coffee)
        THEN [status_text |-> status, status_emoji |-> ":coffee:"]
    ELSE IF Matches(status, Busy)
        THEN [status_text |-> status, status_emoji |-> ":no_entry_sign:"]
    ELSE IF Matches(status, Errand)
        THEN [status_text |-> status, status_emoji |-> ":running:"]
    ELSE IF Matches(status, Doctor)
        THEN [status_text |-> status, status_emoji |-> ":face_with_thermometer:"]
    ELSE IF Matches(status, Away)
        THEN [status_text |-> status, status_emoji |-> ":no_entry_sign:"]
    ELSE IF Matches(status, Call)
        THEN [status_text |-> status, status_emoji |-> ":slack_call:"]
    ELSE IF Matches(status, Meeting)
        THEN [status_text |-> status, status_emoji |-> ":calendar:"]
    ELSE IF Matches(status, Sick)
        THEN [status_text |-> status, status_emoji |-> ":face_with_thermometer:"]
    ELSE IF Matches(status, Commuting)
        THEN [status_text |-> status, status_emoji |-> ":bus:"]
    ELSE [status_text |-> status, status_emoji |-> ":speech_balloon:"]

emojifyStatus_reordered(status) ==
    IF Matches(status, Lunch)
        THEN [status_text |-> status, status_emoji |-> ":taco:"]
    ELSE IF Matches(status, Coffee)
        THEN [status_text |-> status, status_emoji |-> ":coffee:"]
    ELSE IF Matches(status, Busy)
        THEN [status_text |-> DoNotDisturb, status_emoji |-> ":no_entry_sign:"]
    ELSE IF Matches(status, Errand)
        THEN [status_text |-> status, status_emoji |-> ":running:"]
    ELSE IF Matches(status, Doctor)
        THEN [status_text |-> status, status_emoji |-> ":face_with_thermometer:"]
    ELSE IF Matches(status, Call)
        THEN [status_text |-> status, status_emoji |-> ":slack_call:"]
    ELSE IF Matches(status, Away)
        THEN [status_text |-> status, status_emoji |-> ":no_entry_sign:"]
    ELSE IF Matches(status, Meeting)
        THEN [status_text |-> status, status_emoji |-> ":calendar:"]
    ELSE IF Matches(status, Sick)
        THEN [status_text |-> status, status_emoji |-> ":face_with_thermometer:"]
    ELSE IF Matches(status, Commuting)
        THEN [status_text |-> status, status_emoji |-> ":bus:"]
    ELSE [status_text |-> status, status_emoji |-> ":speech_balloon:"]

\* emojifyStatus(status) for a string status: the object assigned to the
\* global `profile` and returned.  (For undefined, status.match throws.)
emojifyStatus(status) ==
    IF Matches(status, Lunch)
        THEN [status_text |-> status, status_emoji |-> ":taco:"]
    ELSE IF Matches(status, Coffee)
        THEN [status_text |-> status, status_emoji |-> ":coffee:"]
    ELSE IF Matches(status, Busy)
        THEN [status_text |-> DoNotDisturb, status_emoji |-> ":no_entry_sign:"]
    ELSE IF Matches(status, Errand)
        THEN [status_text |-> status, status_emoji |-> ":running:"]
    ELSE IF Matches(status, Doctor)
        THEN [status_text |-> status, status_emoji |-> ":face_with_thermometer:"]
    ELSE IF Matches(status, Away)
        THEN [status_text |-> status, status_emoji |-> ":no_entry_sign:"]
    ELSE IF Matches(status, Call)
        THEN [status_text |-> status, status_emoji |-> ":slack_call:"]
    ELSE IF Matches(status, Meeting)
        THEN [status_text |-> status, status_emoji |-> ":calendar:"]
    ELSE IF Matches(status, Sick)
        THEN [status_text |-> status, status_emoji |-> ":face_with_thermometer:"]
    ELSE IF Matches(status, Commuting)
        THEN [status_text |-> status, status_emoji |-> ":bus:"]
    ELSE [status_text |-> status, status_emoji |-> ":speech_balloon:"]

\* Pieces from which the status strings of the stand-alone calls are built:
\* the keywords, and fragments that join into keywords or hide them.
MaxPieces == 2

StatusPieces ==
    {Lunch, Coffee, Busy, Errand, Doctor, Away, Call, Meeting, Sick, Commuting,
     <<"i", "n", " ", "a", " ">>, <<"r", "e">>, <<"b", "u", "s">>, <<"y">>, <<" ">>}

RECURSIVE Concat(_)
Concat(ps) == IF ps = <<>> THEN <<>> ELSE Head(ps) \o Concat(Tail(ps))

StatusStrings ==
    UNION {{Concat(ps) : ps \in [1..n -> StatusPieces]} : n \in 0..MaxPieces}

NoProfile == [status_text |-> <<>>, status_emoji |-> ""]

CallEmojifyStatus ==
    /\ scall.state = "ready"
    /\ LET out == emojifyStatus(scall.status)
       IN /\ scall' = [scall EXCEPT !.state = "done", !.out = out]
          /\ profile' = [declared |-> TRUE, value |-> out]
    /\ UNCHANGED <<turnVars, now, nowWriter, profileWriter, tcall>>

-----------------------------------------------------------------------------
(* Turns: the Alexa events, the emitted responses, the HTTP exchanges      *)

\* Two invocations handled by one loaded module (one warm container),
\* numbered in order of arrival.
Turns == {1, 2}

SlackToken == <<"xoxp-token">>

NoEvent ==
    [intent |-> "none", accessToken |-> Undefined, status |-> Undefined,
     time |-> Undefined, deviceId |-> "", consentToken |-> ""]

SimpleIntents ==
    {"LaunchRequest", "AMAZON.StopIntent", "AMAZON.CancelIntent",
     "AMAZON.HelpIntent", "SlackClearStatusIntent", "Unhandled"}

StatusSlots == {Undefined, Busy, <<"i", "n", " ", "a", " ">> \o Meeting}

TimeSlots == {Undefined, <<"E", "V">>, TimeString(17, 0)}

\* The events Alexa can deliver: only a SlackBusyIntent carries slots.
Events ==
    {[intent |-> i, accessToken |-> a, status |-> Undefined, time |-> Undefined,
      deviceId |-> "device-1", consentToken |-> "consent-1"] :
        i \in SimpleIntents, a \in {Undefined, SlackToken}}
    \cup
    {[intent |-> "SlackBusyIntent", accessToken |-> a, status |-> st, time |-> tm,
      deviceId |-> "device-1", consentToken |-> "consent-1"] :
        a \in {Undefined, SlackToken}, st \in StatusSlots, tm \in TimeSlots}

\* What this.emit(verb, speech, ...) is called with (the fixed reprompt of
\* an ':ask' is left out).  A speech is its literal text, the upstream value
\* a template embeds in it (NoEmbed when none) and, for the busy success,
\* the formatted time.
NoEmbed == "<none>"

Say(verb, text) == [verb |-> verb, text |-> text, embed |-> NoEmbed, until |-> <<>>]

Message(text, embed) == [text |-> text, embed |-> embed]

TellError(m) == [verb |-> ":tell", text |-> m.text, embed |-> m.embed, until |-> <<>>]

LinkAccountOnPhone ==
    Say(":tellWithLinkAccountCard",
        "Please connect your Slack account to Alexa using the Alexa app on your phone.")

AskStatus == Say(":ask", "I didn't get your status, please try again.")

AskTime == Say(":ask", "I didn't get the time, please try again.")

BusyOkText == "Okay, I'll change your status and snooze your notifications until "

\* A value read from a JSON body that has no such field.
UndefinedField == "<undefined>"

\* `${v}` for a string-or-undefined field of a response body.
Embed(v) == IF v = UndefinedField THEN "undefined" ELSE v

\* A promise's settlement.
Resolve(v) == [ok |-> TRUE, value |-> v]
Reject(m) == [ok |-> FALSE, error |-> m]

\* request(opts) itself rejects (simple: false only stops it rejecting on the
\* status code) when no response arrives: a RequestError with the cause's text.
NetworkError ==
    [kind |-> "error", statusCode |-> 0, body |-> [message |-> "Error: ETIMEDOUT"]]

RequestError(response) == Message("RequestError", response.body.message)

HttpResponse(statusCode, body) == [kind |-> "http", statusCode |-> statusCode, body |-> body]

AddressResponses ==
    {HttpResponse(200, [postalCode |-> "20003", countryCode |-> "US"]),
     HttpResponse(403, [type |-> "FORBIDDEN", message |-> "access denied"]),
     NetworkError}

GeocodeResponses ==
    {HttpResponse(200, [status |-> "OK", results |-> <<[lat |-> 38, lng |-> -77]>>]),
     HttpResponse(200, [status |-> "ZERO_RESULTS", results |-> <<>>]),
     HttpResponse(500, [status |-> "UNKNOWN_ERROR", results |-> <<>>]),
     NetworkError}

\* rawOffset and dstOffset are seconds; the model draws whole minutes, on
\* which the code's division by 60 is exact.
TimezoneResponses ==
    {HttpResponse(200, [status |-> "OK", rawOffset |-> -18000, dstOffset |-> 0]),
     HttpResponse(200, [status |-> "OK", rawOffset |-> 36000, dstOffset |-> 3600]),
     HttpResponse(200, [status |-> "INVALID_REQUEST", rawOffset |-> 0, dstOffset |-> 0]),
     HttpResponse(500, [status |-> "UNKNOWN_ERROR", rawOffset |-> 0, dstOffset |-> 0]),
     NetworkError}

SlackResponses ==
    {HttpResponse(200, [ok |-> TRUE, error |-> UndefinedField]),
     HttpResponse(200, [ok |-> FALSE, error |-> "invalid_auth"]),
     HttpResponse(429, [ok |-> FALSE, error |-> UndefinedField]),
     NetworkError}

\* Values of Date.now() while a turn's chain runs.
TurnClocks == {2 * MsPerDay + 20 * 60 * MsPerMinute}

-----------------------------------------------------------------------------
(* The promise-returning helpers: the settlement for a given response      *)

getEchoAddress(response) ==
    IF response.kind = "error" THEN Reject(RequestError(response))
    ELSE IF response.statusCode = 200
    THEN Resolve(<<response.body.postalCode, " ", response.body.countryCode>>)
    ELSE Reject(Message("I'm sorry, I couldn't get your location. Make sure you've given this skill permission to use your address in the Alexa app.",
                        NoEmbed))

geocodeLocation_statusCodeOnly(response) ==
    IF response.kind = "error" THEN Reject(RequestError(response))
    ELSE IF response.statusCode = 200
    THEN Resolve(IF response.body.results = <<>> THEN [lat |-> 0, lng |-> 0]
                 ELSE response.body.results[1])
    ELSE Reject(Message("I'm sorry, I couldn't understand that address. The response from Google Maps was ",
                        Embed(response.body.status)))

geocodeLocation(response) ==
    IF response.kind = "error" THEN Reject(RequestError(response))
    ELSE IF response.statusCode = 200 /\ response.body.status = "OK"
    THEN Resolve(response.body.results[1])
    ELSE Reject(Message("I'm sorry, I couldn't understand that address. The response from Google Maps was ",
                        Embed(response.body.status)))

getUTCOffset(response) ==
    IF response.kind = "error" THEN Reject(RequestError(response))
    ELSE IF response.statusCode = 200 /\ response.body.status = "OK"
    THEN Resolve((response.body.rawOffset + response.body.dstOffset) \div 60)
    ELSE Reject(Message("I'm sorry, I couldn't get the timezone for that location. The response from Google Maps was ",
                        Embed(response.body.status)))

setSlackDND_resolving(response) ==
    IF response.kind = "error" THEN Reject(RequestError(response))
    ELSE Resolve(UndefinedField)

setSlackDND(response) ==
    IF response.kind = "error" THEN Reject(RequestError(response))
    ELSE IF response.statusCode # 200 \/ ~response.body.ok
    THEN Reject(Message("I couldn't snooze notifications. The error from Slack was: ",
                        Embed(response.body.error)))
    ELSE Resolve(UndefinedField)

setSlackStatus(response) ==
    IF response.kind = "error" THEN Reject(RequestError(response))
    ELSE IF response.statusCode # 200 \/ ~response.body.ok
    THEN Reject(Message("I couldn't set the status. The error from Slack was: ",
                        Embed(response.body.error)))
    ELSE Resolve(UndefinedField)

\* moment(requested_time, 'HH:mm').format('h:mm a')
InvalidDate == <<"I", "n", "v", "a", "l", "i", "d", " ", "d", "a", "t", "e">>

FormatUntil(requested_time) ==
    LET p == ParseHHmm(TemplateString(requested_time))
        h == (p.minutes \div 60) % 24
        m == p.minutes % 60
        h12 == IF h % 12 = 0 THEN 12 ELSE h % 12
        hs == IF h12 >= 10 THEN <<Digits[2], Digits[h12 - 10 + 1]>> ELSE <<Digits[h12 + 1]>>
    IN IF ~p.valid \/ ~p.parsed THEN InvalidDate
       ELSE hs \o <<":", Digits[(m \div 10) + 1], Digits[(m % 10) + 1], " ",
                    IF h < 12 THEN "a" ELSE "p", "m">>

-----------------------------------------------------------------------------
(* The handlers.  pc[t] is "idle" before turn t's event arrives, the name   *)
(* of the HTTP call in flight while its chain waits, and "done" after.     *)

Request(service, payload) == [service |-> service, payload |-> payload]

\* Lambda hands a container one event at a time: a new event arrives only
\* once every earlier invocation has emitted a response (alexa-sdk ends the
\* invocation on the first emit); promise chains still pending then go on.
CanInvoke(t) ==
    /\ pc[t] = "idle"
    /\ \A u \in Turns \ {t} :
          \/ u < t /\ pc[u] # "idle" /\ responses[u] # <<>>
          \/ u > t /\ pc[u] = "idle"

\* alexa.execute() dispatching to a handler that only emits.
Finish(t, ev, emitted) ==
    /\ event' = [event EXCEPT ![t] = ev]
    /\ responses' = [responses EXCEPT ![t] = emitted]
    /\ pc' = [pc EXCEPT ![t] = "done"]
    /\ UNCHANGED <<requests, returned, globalVars, tcall, scall>>

launchRequestHandler(t) ==
    \E ev \in Events :
        /\ CanInvoke(t)
        /\ ev.intent = "LaunchRequest"
        /\ Finish(t, ev,
                  IF ~Falsy(ev.accessToken)
                  THEN <<Say(":ask", "What would you like to do?")>>
                  ELSE <<Say(":tellWithLinkAccountCard",
                             "Please connect your Slack account to Alexa using the Alexa app.")>>)

stopIntentHandler(t) ==
    \E ev \in Events :
        /\ CanInvoke(t)
        /\ ev.intent = "AMAZON.StopIntent"
        /\ Finish(t, ev, <<Say(":tell", "Okay")>>)

cancelIntentHandler(t) ==
    \E ev \in Events :
        /\ CanInvoke(t)
        /\ ev.intent = "AMAZON.CancelIntent"
        /\ Finish(t, ev, <<Say(":tell", "Okay")>>)

helpIntentHandler(t) ==
    \E ev \in Events :
        /\ CanInvoke(t)
        /\ ev.intent = "AMAZON.HelpIntent"
        /\ Finish(t, ev, <<Say(":ask", "<p>Here are a few things you can do:</p>...")>>)

unhandledIntentHandler(t) ==
    \E ev \in Events :
        /\ CanInvoke(t)
        /\ ev.intent = "Unhandled"
        /\ Finish(t, ev, <<Say(":ask", "I didn't get that. What would you like to do?")>>)

\* The synchronous part of slackClearStatusIntentHandler: the check of the
\* token, then setSlackStatus posting the empty profile.
slackClearStatusIntentHandler(t) ==
    \E ev \in Events :
        /\ CanInvoke(t)
        /\ ev.intent = "SlackClearStatusIntent"
        /\ event' = [event EXCEPT ![t] = ev]
        /\ responses' = [responses EXCEPT ![t] =
              IF Falsy(ev.accessToken) THEN <<LinkAccountOnPhone>> ELSE <<>>]
        /\ requests' = [requests EXCEPT ![t] =
              <<Request("users.profile.set",
                        [profile |-> [status_text |-> <<>>, status_emoji |-> ""],
                         token |-> ev.accessToken])>>]
        /\ pc' = [pc EXCEPT ![t] = "clear"]
        /\ UNCHANGED <<returned, globalVars, tcall, scall>>

\* The three validations of slackBusyIntentHandler, in order.
BusyValidation(ev) ==
    (IF Falsy(ev.accessToken) THEN <<LinkAccountOnPhone>> ELSE <<>>)
    \o (IF Falsy(ev.status) THEN <<AskStatus>> ELSE <<>>)
    \o (IF Falsy(ev.time) THEN <<AskTime>> ELSE <<>>)

\* The synchronous part of slackBusyIntentHandler: the validations, then
\* getEchoUTCOffset -> getEchoAddress issuing the device-address request.
slackBusyIntentHandler(t) ==
    \E ev \in Events :
        /\ CanInvoke(t)
        /\ ev.intent = "SlackBusyIntent"
        /\ event' = [event EXCEPT ![t] = ev]
        /\ responses' = [responses EXCEPT ![t] = BusyValidation(ev)]
        /\ requests' = [requests EXCEPT ![t] =
              <<Request("address",
                        [deviceId |-> ev.deviceId, consentToken |-> ev.consentToken])>>]
        /\ pc' = [pc EXCEPT ![t] = "address"]
        /\ UNCHANGED <<returned, globalVars, tcall, scall>>

\* A response arrives for the call in flight.
Receive(t, service, response) ==
    returned' = [returned EXCEPT ![t] =
                    Append(@, [service |-> service, response |-> response])]

\* .catch(error => { this.emit(':tell', error.message); })
Catch(t, error) ==
    /\ responses' = [responses EXCEPT ![t] = Append(@, TellError(error))]
    /\ pc' = [pc EXCEPT ![t] = "done"]

\* getEchoAddress's callback, then geocodeLocation's request.
AddressResponse(t) ==
    \E response \in AddressResponses :
        /\ pc[t] = "address"
        /\ Receive(t, "address", response)
        /\ LET p == getEchoAddress(response)
           IN IF p.ok
              THEN /\ requests' = [requests EXCEPT ![t] =
                         Append(@, Request("geocode", [address |-> p.value]))]
                   /\ pc' = [pc EXCEPT ![t] = "geocode"]
                   /\ UNCHANGED responses
              ELSE /\ Catch(t, p.error)
                   /\ UNCHANGED requests
        /\ UNCHANGED <<event, globalVars, tcall, scall>>

\* geocodeLocation's callback, then getUTCOffset's request.
GeocodeResponse(t) ==
    \E response \in GeocodeResponses :
        /\ pc[t] = "geocode"
        /\ Receive(t, "geocode", response)
        /\ LET p == geocodeLocation(response)
           IN IF p.ok
              THEN /\ requests' = [requests EXCEPT ![t] =
                         Append(@, Request("timezone", [location |-> p.value]))]
                   /\ pc' = [pc EXCEPT ![t] = "timezone"]
                   /\ UNCHANGED responses
              ELSE /\ Catch(t, p.error)
                   /\ UNCHANGED requests
        /\ UNCHANGED <<event, globalVars, tcall, scall>>

\* getUTCOffset's callback, then setSlackDNDUntil: the duration is computed
\* (assigning the global `now`) and dnd.setSnooze is requested.
TimezoneResponse(t) ==
    \E response \in TimezoneResponses, clock \in TurnClocks :
        /\ pc[t] = "timezone"
        /\ Receive(t, "timezone", response)
        /\ LET p == getUTCOffset(response)
           IN IF p.ok
              THEN LET r == setSlackDNDUntil(event[t].time, p.value, clock)
                   IN /\ now' = [declared |-> TRUE, value |-> r.now]
                      /\ nowWriter' = t
                      /\ requests' = [requests EXCEPT ![t] =
                            Append(@, Request("dnd.setSnooze",
                                              [num_minutes |-> r.minutes,
                                               token |-> event[t].accessToken]))]
                      /\ pc' = [pc EXCEPT ![t] = "snooze"]
                      /\ UNCHANGED responses
              ELSE /\ Catch(t, p.error)
                   /\ UNCHANGED <<requests, now, nowWriter>>
        /\ UNCHANGED <<event, profile, profileWriter, tcall, scall>>

\* setSlackDND's callback, then setSlackStatus(emojifyStatus(status), ...):
\* emojifyStatus assigns the global `profile`; on an undefined status its
\* status.match throws, which the chain's catch speaks.
SnoozeResponse(t) ==
    \E response \in SlackResponses :
        /\ pc[t] = "snooze"
        /\ Receive(t, "dnd.setSnooze", response)
        /\ LET p == setSlackDND(response)
           IN IF ~p.ok
              THEN /\ Catch(t, p.error)
                   /\ UNCHANGED <<requests, profile, profileWriter>>
              ELSE IF event[t].status = Undefined
              THEN /\ Catch(t, Message("TypeError", "Cannot read property 'match' of undefined"))
                   /\ UNCHANGED <<requests, profile, profileWriter>>
              ELSE LET e == emojifyStatus(event[t].status)
                   IN /\ profile' = [declared |-> TRUE, value |-> e]
                      /\ profileWriter' = t
                      /\ requests' = [requests EXCEPT ![t] =
                            Append(@, Request("users.profile.set",
                                              [profile |-> e,
                                               token |-> event[t].accessToken]))]
                      /\ pc' = [pc EXCEPT ![t] = "profile"]
                      /\ UNCHANGED responses
        /\ UNCHANGED <<event, now, nowWriter, tcall, scall>>

\* setSlackStatus's callback in the busy chain, then the final emit.
ProfileResponse(t) ==
    \E response \in SlackResponses :
        /\ pc[t] = "profile"
        /\ Receive(t, "users.profile.set", response)
        /\ LET p == setSlackStatus(response)
           IN IF p.ok
              THEN /\ responses' = [responses EXCEPT ![t] =
                         Append(@, [verb |-> ":tell", text |-> BusyOkText,
                                    embed |-> NoEmbed,
                                    until |-> FormatUntil(event[t].time)])]
                   /\ pc' = [pc EXCEPT ![t] = "done"]
              ELSE Catch(t, p.error)
        /\ UNCHANGED <<event, requests, globalVars, tcall, scall>>

\* setSlackStatus's callback in the clear-status chain, then the emit.
ClearResponse(t) ==
    \E response \in SlackResponses :
        /\ pc[t] = "clear"
        /\ Receive(t, "users.profile.set", response)
        /\ LET p == setSlackStatus(response)
           IN IF p.ok
              THEN /\ responses' = [responses EXCEPT ![t] =
                         Append(@, Say(":tell", "Okay, I'll clear your status."))]
                   /\ pc' = [pc EXCEPT ![t] = "done"]
              ELSE Catch(t, p.error)
        /\ UNCHANGED <<event, requests, globalVars, tcall, scall>>

-----------------------------------------------------------------------------
(* Specifications                                                          *)

InitTurns ==
    /\ event = [t \in Turns |-> NoEvent]
    /\ pc = [t \in Turns |-> "idle"]
    /\ responses = [t \in Turns |-> <<>>]
    /\ requests = [t \in Turns |-> <<>>]
    /\ returned = [t \in Turns |-> <<>>]

NoTimeCall ==
    [state |-> "none", time |-> <<>>, offset |-> 0, clock |-> 0, out |-> NoTimeResult]

NoStatusCall == [state |-> "none", status |-> <<>>, out |-> NoProfile]

\* The skill: a freshly loaded module handling the turns.
Init ==
    /\ InitTurns
    /\ InitGlobals
    /\ tcall = NoTimeCall
    /\ scall = NoStatusCall

Next ==
    \E t \in Turns :
        \/ launchRequestHandler(t)
        \/ stopIntentHandler(t)
        \/ cancelIntentHandler(t)
        \/ helpIntentHandler(t)
        \/ unhandledIntentHandler(t)
        \/ slackClearStatusIntentHandler(t)
        \/ slackBusyIntentHandler(t)
        \/ AddressResponse(t)
        \/ GeocodeResponse(t)
        \/ TimezoneResponse(t)
        \/ SnoozeResponse(t)
        \/ ProfileResponse(t)
        \/ ClearResponse(t)

Spec == Init /\ [][Next]_vars

\* setSlackDNDUntil's computation on every time, offset and instant drawn.
InitTime ==
    /\ InitTurns
    /\ InitGlobals
    /\ scall = NoStatusCall
    /\ tcall \in {[state |-> "ready", time |-> tm, offset |-> off, clock |-> c,
                   out |-> NoTimeResult] :
                     tm \in TimeTokens \cup ClockTimes, off \in Offsets, c \in Clocks}

NextTime == CallSetSlackDNDUntil

SpecTime == InitTime /\ [][NextTime]_vars

\* emojifyStatus on every status string drawn.
InitStatus ==
    /\ InitTurns
    /\ InitGlobals
    /\ tcall = NoTimeCall
    /\ scall \in {[state |-> "ready", status |-> st, out |-> NoProfile] :
                     st \in StatusStrings}

NextStatus == CallEmojifyStatus

SpecStatus == InitStatus /\ [][NextStatus]_vars

-----------------------------------------------------------------------------
(* Properties of the turns (specification Spec)                            *)

IsBusyTurn(t) == event[t].intent = "SlackBusyIntent"

Last(q) == q[Len(q)]

\* A validation of the turn's handler failed.
ValidationFailed(t) ==
    \/ /\ IsBusyTurn(t)
       /\ Falsy(event[t].accessToken) \/ Falsy(event[t].status) \/ Falsy(event[t].time)
    \/ /\ event[t].intent = "SlackClearStatusIntent"
       /\ Falsy(event[t].accessToken)

\* A response that is a success by the service's contract: HTTP 200, and
\* body.status "OK" (Google) or a truthy body.ok (Slack).
Success(e) ==
    /\ e.response.kind = "http"
    /\ e.response.statusCode = 200
    /\ e.service \in {"geocode", "timezone"} => e.response.body.status = "OK"
    /\ e.service \in {"dnd.setSnooze", "users.profile.set"} => e.response.body.ok

\* A response that came back and is not a success.
NonSuccess(e) == e.response.kind = "http" /\ ~Success(e)

\* The error field of a service's failure payload, as a template prints it.
UpstreamError(e) ==
    CASE e.service = "address" -> e.response.body.message
      [] e.service \in {"geocode", "timezone"} -> Embed(e.response.body.status)
      [] OTHER -> Embed(e.response.body.error)

ChainOrder ==
    <<"address", "geocode", "timezone", "dnd.setSnooze", "users.profile.set">>

\* C1: in every turn exactly one response is emitted: never two or more,
\* and never none once the turn's handling has ended.
C1_ExactlyOneResponse ==
    \A t \in Turns :
        /\ Len(responses[t]) <= 1
        /\ pc[t] = "done" => Len(responses[t]) = 1

\* C2: a validation failure ends the turn: the handler has emitted its
\* link-account / re-prompt response and no HTTP request is issued.
C2_ValidationFailureEndsTurn ==
    \A t \in Turns :
        ValidationFailed(t) =>
            /\ responses[t] # <<>>
            /\ requests[t] = <<>>
            /\ pc[t] = "done"

\* C3 as claimed: in the busy chain a non-success response of any of the
\* five calls is the last exchange of the turn, and the turn ends speaking,
\* as a ':tell', a message that embeds that service's upstream error field.
C3_ErrorEmbedsUpstreamField ==
    \A t \in Turns : \A i \in 1..Len(returned[t]) :
        (IsBusyTurn(t) /\ NonSuccess(returned[t][i])) =>
            /\ i = Len(returned[t])
            /\ Len(requests[t]) = i
            /\ pc[t] = "done"
            /\ Last(responses[t]).verb = ":tell"
            /\ Last(responses[t]).embed = UpstreamError(returned[t][i])

\* C3 as amended: the same, except that for the device-address call the
\* message spoken is the fixed permission text and embeds nothing upstream.
C3_ErrorSpokenAndChainStops ==
    \A t \in Turns : \A i \in 1..Len(returned[t]) :
        (IsBusyTurn(t) /\ NonSuccess(returned[t][i])) =>
            /\ i = Len(returned[t])
            /\ Len(requests[t]) = i
            /\ pc[t] = "done"
            /\ Last(responses[t]).verb = ":tell"
            /\ Last(responses[t]).text # BusyOkText
            /\ IF returned[t][i].service = "address"
               THEN Last(responses[t]).embed = NoEmbed
               ELSE Last(responses[t]).embed = UpstreamError(returned[t][i])

C3_Witness ==
    \E t \in Turns :
        /\ IsBusyTurn(t)
        /\ Len(returned[t]) = 4
        /\ returned[t][4].response.statusCode = 200
        /\ NonSuccess(returned[t][4])
        /\ Last(responses[t]).embed = "invalid_auth"

\* C9: no mutable state is shared across invocations: while a turn is being
\* handled, no global variable holds a value assigned by another turn.
C9_NoSharedMutableState ==
    \A t \in Turns :
        pc[t] \notin {"idle", "done"} =>
            /\ now.declared => nowWriter = t
            /\ profile.declared => profileWriter = t

\* C10: the busy chain's calls are issued in the fixed order, one at a time,
\* each only after the previous one returned success; the success response
\* is emitted only after all five succeeded; and when users.profile.set
\* fails the snooze has been applied while the turn speaks an error.
C10_SequentialChain ==
    \A t \in Turns :
        IsBusyTurn(t) =>
            /\ Len(requests[t]) <= 5
            /\ Len(returned[t]) <= Len(requests[t])
            /\ Len(requests[t]) <= Len(returned[t]) + 1
            /\ \A i \in 1..Len(requests[t]) : requests[t][i].service = ChainOrder[i]
            /\ \A i \in 1..Len(returned[t]) : returned[t][i].service = ChainOrder[i]
            /\ \A i \in 1..(Len(requests[t]) - 1) : Success(returned[t][i])
            /\ (\E k \in 1..Len(responses[t]) : responses[t][k].text = BusyOkText) =>
                  /\ Len(returned[t]) = 5
                  /\ \A i \in 1..5 : Success(returned[t][i])
            /\ (Len(returned[t]) = 5 /\ ~Success(returned[t][5])) =>
                  /\ Success(returned[t][4])
                  /\ Last(responses[t]).verb = ":tell"
                  /\ \A k \in 1..Len(responses[t]) : responses[t][k].text # BusyOkText

C10_Witness ==
    \E t \in Turns :
        /\ IsBusyTurn(t)
        /\ Len(returned[t]) = 5
        /\ NonSuccess(returned[t][5])
        /\ Success(returned[t][4])
        /\ pc[t] = "done"
        /\ Last(responses[t]).text = "I couldn't set the status. The error from Slack was: "

-----------------------------------------------------------------------------
(* Properties of the time computation (specification SpecTime)             *)

\* The clock reading of a well-formed HH:mm string, in minutes.
ClockMinutes(ts) ==
    60 * (10 * DigitVal(ts[1]) + DigitVal(ts[2])) + 10 * DigitVal(ts[4]) + DigitVal(ts[5])

\* The target moment: the clock time ts on the current (UTC) date, read in
\* the time zone `offset` minutes east of UTC.
TargetInstant(ts, offset, clock) ==
    (clock - (clock % MsPerDay)) + (ClockMinutes(ts) - offset) * MsPerMinute

\* k is the span ms in whole minutes (the fraction dropped).
IsWholeMinutes(k, ms) ==
    IF ms >= 0
    THEN k * MsPerMinute <= ms /\ ms < (k + 1) * MsPerMinute
    ELSE (k - 1) * MsPerMinute < ms /\ ms <= k * MsPerMinute

NineOClock == <<"0", "9", ":", "0", "0">>

\* C4: the duration returned is a whole number of minutes d, 0 <= d < 1440.
C4_DurationWithinOneDay ==
    tcall.state = "done" =>
        /\ ~tcall.out.minutes.nan
        /\ 0 <= tcall.out.minutes.val
        /\ tcall.out.minutes.val < 1440

NormalizedTime(time) ==
    IF time = <<"M", "O">> THEN NineOClock
    ELSE IF time = <<"A", "F">> THEN <<"1", "3", ":", "0", "0">>
    ELSE IF time = <<"E", "V">> THEN <<"1", "9", ":", "0", "0">>
    ELSE IF time = <<"N", "I">> THEN <<"2", "1", ":", "0", "0">>
    ELSE time

\* C8: normalizeAmazonTime maps MO, AF, EV, NI to 09:00, 13:00, 19:00, 21:00
\* and any other string to itself, and setSlackDNDUntil computes the
\* duration from the normalized value.
C8_NormalizationExact ==
    tcall.state = "done" =>
        /\ tcall.out.requested_time = NormalizedTime(tcall.time)
        /\ tcall.out.minutes =
              getMinutesUntil(NormalizedTime(tcall.time), tcall.offset, tcall.clock).minutes

C8_Witness ==
    /\ tcall.state = "done"
    /\ tcall.time = <<"N", "I">>
    /\ tcall.out.requested_time = <<"2", "1", ":", "0", "0">>
    /\ ~tcall.out.minutes.nan

-----------------------------------------------------------------------------
(* Properties of the status mapping (specification SpecStatus)             *)

KeywordOrder ==
    <<Lunch, Coffee, Busy, Errand, Doctor, Away, Call, Meeting, Sick, Commuting>>

KeywordEmoji ==
    <<":taco:", ":coffee:", ":no_entry_sign:", ":running:", ":face_with_thermometer:",
      ":no_entry_sign:", ":slack_call:", ":calendar:", ":face_with_thermometer:", ":bus:">>

InAMeeting == <<"i", "n", " ", "a", " ", "m", "e", "e", "t", "i", "n", "g">>

\* C6 as claimed: a status containing "busy" always gets the display text
\* "Do not disturb", whatever else it contains.
C6_BusyAlwaysDoNotDisturb ==
    (scall.state = "done" /\ Matches(scall.status, Busy)) =>
        scall.out.status_text = DoNotDisturb

\* C6 as amended: a status containing "busy" gets the display text "Do not
\* disturb" unless it also contains "lunch" or "coffee"; then the earlier
\* keyword wins and the text is the input.
C6_BusyDoNotDisturbUnlessEarlier ==
    (scall.state = "done" /\ Matches(scall.status, Busy)) =>
        IF Matches(scall.status, Lunch) \/ Matches(scall.status, Coffee)
        THEN scall.out.status_text = scall.status
        ELSE scall.out.status_text = DoNotDisturb

C6_Witness ==
    /\ scall.state = "done"
    /\ Matches(scall.status, Busy)
    /\ Matches(scall.status, Call)
    /\ scall.out.status_text = DoNotDisturb

\* C7: every status string yields one {status_text, status_emoji} pair, that
\* of the first keyword, in the fixed order, occurring in it, or
\* ':speech_balloon:' when none occurs; status_text is the input except for
\* busy; "in a meeting" gives "in a meeting" and ':calendar:'.
C7_FirstKeywordWins ==
    scall.state = "done" =>
        LET hits == {i \in 1..Len(KeywordOrder) : Matches(scall.status, KeywordOrder[i])}
        IN /\ DOMAIN scall.out = {"status_text", "status_emoji"}
           /\ IF hits = {}
              THEN scall.out = [status_text |-> scall.status,
                                status_emoji |-> ":speech_balloon:"]
              ELSE LET first == CHOOSE i \in hits : \A j \in hits : i <= j
                   IN /\ scall.out.status_emoji = KeywordEmoji[first]
                      /\ scall.out.status_text =
                            IF KeywordOrder[first] = Busy THEN DoNotDisturb
                            ELSE scall.status
           /\ scall.status = InAMeeting =>
                 scall.out = [status_text |-> InAMeeting, status_emoji |-> ":calendar:"]

C7_Witness ==
    /\ scall.state = "done"
    /\ scall.status = InAMeeting
    /\ scall.out.status_emoji = ":calendar:"

====
